---- MODULE Spec2Model ----
(***************************************************************************)
(* taskdantic: harvesting of UDA specs from Task subclasses, merge,        *)
(* rendering, and synchronisation of the managed block of a taskrc file.   *)
(*                                                                         *)
(* Text is a sequence of tokens.  A token is a Python string that the      *)
(* code never looks inside of except through the classifications below:   *)
(* "\n", " ", the two marker texts, the generated-notice line, one user    *)
(* setting, and the uda.* / urgency.* lines that render_taskrc_udas        *)
(* builds by string concatenation.                                         *)
(***************************************************************************)
EXTENDS Integers, Sequences, FiniteSets, TLC

VARIABLES fs, pc, classes, tasks_root, strict, call, prev, runs, file0,
          specLists, mergeAB, mergeBA, textAB, textBA,
          graph, allowed, models, dpc,
          utext, ubody, uout, upc,
          xgraph, xcls, xspecs, xudas, xpc,
          rspecs, rout, rlist, rnames, rpc,
          task, task0, tbefore, top, clock,
          sfile, sdir, stypes, shist

syncVars == <<fs, pc, classes, tasks_root, strict, call, prev, runs, file0>>
mergeVars == <<specLists, mergeAB, mergeBA, textAB, textBA>>
discVars == <<graph, allowed, models, dpc>>
upsertVars == <<utext, ubody, uout, upc>>
extractVars == <<xgraph, xcls, xspecs, xudas, xpc>>
renderVars == <<rspecs, rout, rlist, rnames, rpc>>
taskVars == <<task, task0, tbefore, top, clock>>
resyncVars == <<sfile, sdir, stypes, shist>>
vars == <<syncVars, mergeVars, discVars, upsertVars, extractVars, renderVars, taskVars, resyncVars>>

(***************************************************************************)
(* Bounds                                                                  *)
(***************************************************************************)
MaxText == 3
MaxUpsertText == 5
MaxSyncs == 2
MaxSpecs == 3
MaxClasses == 3
MaxDepends == 1
MaxClock == 1
MaxResyncs == 3
MaxResyncText == 2
MaxAnnotations == 1

(***************************************************************************)
(* Program constants                                                       *)
(***************************************************************************)
BEGIN_MARKER == "# BEGIN TASKDANTIC UDAS"
END_MARKER == "# END TASKDANTIC UDAS"
GENERATED_NOTICE == "# Generated from Pydantic Task models. Do not edit by hand."
UDA_TYPE_STRING == "string"
UDA_TYPE_NUMERIC == "numeric"
UDA_TYPE_DATE == "date"
UDA_TYPE_DURATION == "duration"

NL == "\n"
SP == " "
UserLine == "tag.color=blue"

CORE_FIELDS ==
    {"uuid", "description", "status", "entry", "modified", "due", "scheduled",
     "start", "end", "wait", "until", "project", "tags", "priority",
     "annotations", "depends"}

ComputedFields ==
    {"is_active", "is_blocked", "is_overdue", "is_waiting", "days_until_due"}

(***************************************************************************)
(* Optional values (Python None or a value)                                *)
(***************************************************************************)
NoStr == [some |-> FALSE, v |-> ""]
SomeStr(s) == [some |-> TRUE, v |-> s]
NoSeq == [some |-> FALSE, v |-> <<>>]
SomeSeq(q) == [some |-> TRUE, v |-> q]

\* Python truthiness of an optional str, and of an optional list or dict
TruthyStr(o) == o.some /\ o.v # ""
TruthySeq(o) == o.some /\ o.v # <<>>

(***************************************************************************)
(* UdaSpec.  urgency is a dict: a sequence of [val, coeff] entries in      *)
(* insertion order with distinct keys; dict equality ignores the order.    *)
(***************************************************************************)
UdaSpec(n, t, l, vs, u) ==
    [name |-> n, type |-> t, label |-> l, values |-> vs, urgency |-> u]

Range(q) == {q[i] : i \in 1..Len(q)}

DictEq(u, w) == u.some = w.some /\ Range(u.v) = Range(w.v)

\* (prev.type, prev.label, prev.values, prev.urgency) == (s.type, ...)
SpecFieldsEq(p, s) ==
    /\ p.type = s.type
    /\ p.label = s.label
    /\ p.values = s.values
    /\ DictEq(p.urgency, s.urgency)

\* dataclass __eq__ of UdaSpec
SpecEq(p, s) == p.name = s.name /\ SpecFieldsEq(p, s)

(***************************************************************************)
(* Sequence helpers                                                        *)
(***************************************************************************)
RECURSIVE Flatten(_)
Flatten(qq) == IF qq = <<>> THEN <<>> ELSE Head(qq) \o Flatten(Tail(qq))

RECURSIVE Reverse(_)
Reverse(q) == IF q = <<>> THEN <<>> ELSE Append(Reverse(Tail(q)), Head(q))

SeqsUpTo(S, n) == UNION {[1..k -> S] : k \in 0..n}

\* str.find for a token: first index, 0 when absent (Python -1)
Find(text, tok) ==
    IF \E i \in 1..Len(text) : text[i] = tok
    THEN CHOOSE i \in 1..Len(text) :
             text[i] = tok /\ \A j \in 1..(i - 1) : text[j] # tok
    ELSE 0

Count(text, tok) == Cardinality({i \in 1..Len(text) : text[i] = tok})

IsSpace(tok) == tok \in {NL, SP}

RECURSIVE RStrip(_)
RStrip(text) ==
    IF text # <<>> /\ IsSpace(text[Len(text)])
    THEN RStrip(SubSeq(text, 1, Len(text) - 1))
    ELSE text

\* the variant that strips nothing
LStrip_Keep(text) == text

RECURSIVE LStrip(_)
LStrip(text) ==
    IF text # <<>> /\ IsSpace(Head(text)) THEN LStrip(Tail(text)) ELSE text

Strip(text) == LStrip(RStrip(text))

\* str.splitlines on "\n"
RECURSIVE SplitLines(_)
SplitLines(text) ==
    IF text = <<>> THEN <<>>
    ELSE LET i == Find(text, NL)
         IN IF i = 0 THEN <<text>>
            ELSE <<SubSeq(text, 1, i - 1)>>
                 \o SplitLines(SubSeq(text, i + 1, Len(text)))

\* "\n".join(lines), every line a token sequence ("" is <<>>)
RECURSIVE JoinLines(_)
JoinLines(lines) ==
    IF lines = <<>> THEN <<>>
    ELSE IF Len(lines) = 1 THEN lines[1]
    ELSE lines[1] \o <<NL>> \o JoinLines(Tail(lines))

\* ",".join(values)
RECURSIVE JoinComma(_)
JoinComma(vs) ==
    IF vs = <<>> THEN ""
    ELSE IF Len(vs) = 1 THEN vs[1]
    ELSE vs[1] \o "," \o JoinComma(Tail(vs))

(***************************************************************************)
(* Names and their order (Python str comparison on the names used here)    *)
(***************************************************************************)
NameOrder == <<"old", "points", "sprint">>
NameUniverse == Range(NameOrder)
TypeUniverse ==
    {UDA_TYPE_STRING, UDA_TYPE_NUMERIC, UDA_TYPE_DATE, UDA_TYPE_DURATION}

Rank(n) == CHOOSE i \in 1..Len(NameOrder) : NameOrder[i] = n

(***************************************************************************)
(* uda_export.merge_uda_specs                                              *)
(* The dict `merged` is the sequence of its values in insertion order.     *)
(***************************************************************************)
IndexOfName(merged, n) ==
    IF \E i \in 1..Len(merged) : merged[i].name = n
    THEN CHOOSE i \in 1..Len(merged) : merged[i].name = n
    ELSE 0

Raised(n) == [raised |-> TRUE, name |-> n, merged |-> <<>>]
Returned(m) == [raised |-> FALSE, name |-> "", merged |-> m]

\* line 123: the stored spec and the new one differ
Conflicting_TypeOnly(p, s) == p.type # s.type

\* the variant that refuses every second declaration of a name
Conflicting_SameName(p, s) == TRUE

Conflicting_Truthy(p, s) ==
    \/ p.type # s.type
    \/ (TruthyStr(p.label) /\ p.label # s.label)
    \/ (TruthySeq(p.values) /\ p.values # s.values)
    \/ (TruthySeq(p.urgency) /\ ~DictEq(p.urgency, s.urgency))

Conflicting(p, s) == ~SpecFieldsEq(p, s)

\* the two nested for loops, run over the specs in iteration order
RECURSIVE MergeLoop(_, _)
MergeLoop(ss, merged) ==
    IF ss = <<>> THEN Returned(merged)
    ELSE LET s == Head(ss)
             i == IndexOfName(merged, s.name)
         IN IF i = 0 THEN MergeLoop(Tail(ss), Append(merged, s))
            ELSE IF Conflicting(merged[i], s) THEN Raised(s.name)
            ELSE MergeLoop(Tail(ss), merged)

merge_uda_specs(spec_lists) == MergeLoop(Flatten(spec_lists), <<>>)

\* set(spec_map.keys())
Keys(merged) == {merged[i].name : i \in 1..Len(merged)}

\* dict equality of two registries
RegistryEq(m1, m2) ==
    /\ Keys(m1) = Keys(m2)
    /\ \A i \in 1..Len(m1) :
           SpecEq(m1[i], m2[IndexOfName(m2, m1[i].name)])

(***************************************************************************)
(* uda_export.render_taskrc_udas                                           *)
(***************************************************************************)
TypeLine(n, t) == "uda." \o n \o ".type=" \o t
LabelLine(n, l) == "uda." \o n \o ".label=" \o l
ValuesLine(n, vs) == "uda." \o n \o ".values=" \o JoinComma(vs)
UrgencyLine(n, e) ==
    "urgency.uda." \o n \o "." \o e.val \o ".coefficient=" \o e.coeff

\* sorted(specs, key=lambda x: x.name): stable
RECURSIVE InsertByName(_, _)
InsertByName(sorted, s) ==
    IF sorted = <<>> THEN <<s>>
    ELSE IF Rank(s.name) < Rank(Head(sorted).name) THEN <<s>> \o sorted
    ELSE <<Head(sorted)>> \o InsertByName(Tail(sorted), s)

\* the variant that keeps the order of the input
SortedByName_InputOrder(specs) == specs

RECURSIVE SortedByName(_)
SortedByName(specs) ==
    IF specs = <<>> THEN <<>>
    ELSE InsertByName(SortedByName(SubSeq(specs, 1, Len(specs) - 1)),
                      specs[Len(specs)])

SpecLines(s) ==
    << <<TypeLine(s.name, s.type)>> >>
    \o (IF TruthyStr(s.label) THEN << <<LabelLine(s.name, s.label.v)>> >>
        ELSE <<>>)
    \o (IF TruthySeq(s.values) THEN << <<ValuesLine(s.name, s.values.v)>> >>
        ELSE <<>>)
    \o (IF TruthySeq(s.urgency)
        THEN [i \in 1..Len(s.urgency.v) |->
                 <<UrgencyLine(s.name, s.urgency.v[i])>>]
        ELSE <<>>)
    \o << <<>> >>

RECURSIVE AllSpecLines(_)
AllSpecLines(sorted) ==
    IF sorted = <<>> THEN <<>>
    ELSE SpecLines(Head(sorted)) \o AllSpecLines(Tail(sorted))

render_taskrc_udas_FirstOnly(specs) ==
    RStrip(JoinLines(AllSpecLines(
        IF specs = <<>> THEN <<>> ELSE <<SortedByName(specs)[1]>>))) \o <<NL>>

render_taskrc_udas(specs) ==
    RStrip(JoinLines(AllSpecLines(SortedByName(specs)))) \o <<NL>>

\* uda_registry.UDARegistry.list
UDARegistry_list(specs) == SortedByName(specs)

(***************************************************************************)
(* uda_sync.parse_existing_uda_names                                       *)
(* A stripped line starts with "#" when its first token is a marker or     *)
(* the notice; it starts with "uda." and holds ".type=" with the name in   *)
(* front of it when its first token is a type line (every text of this     *)
(* model has its uda.*.label / uda.*.values tokens alone on their line).   *)
(* A label line holds ".type=" too when the label does; the name is then   *)
(* what stands between "uda." and the first ".type=".                      *)
(***************************************************************************)
\* a label with ".type=" in it, and what the label holds in front of it
MarkedLabel == "see cfg.type=agile"
MarkedLabelHead == "see cfg"

StartsWithHash(tok) == tok \in {BEGIN_MARKER, END_MARKER, GENERATED_NOTICE}

IsTypeLine(tok) ==
    \E n \in NameUniverse, t \in TypeUniverse : tok = TypeLine(n, t)

NameOfTypeLine(tok) ==
    CHOOSE n \in NameUniverse : \E t \in TypeUniverse : tok = TypeLine(n, t)

IsMarkedLabelLine(tok) == \E n \in NameUniverse : tok = LabelLine(n, MarkedLabel)

\* rest.split(".type=", 1)[0] of such a line
NameOfMarkedLabelLine(tok) ==
    LET n == CHOOSE n \in NameUniverse : tok = LabelLine(n, MarkedLabel)
    IN n \o ".label=" \o MarkedLabelHead

LineNames(raw) ==
    LET line == Strip(raw)
    IN IF line = <<>> \/ StartsWithHash(line[1]) THEN {}
       ELSE IF IsTypeLine(line[1]) THEN {NameOfTypeLine(line[1])}
       ELSE IF IsMarkedLabelLine(line[1])
            THEN {NameOfMarkedLabelLine(line[1])}
       ELSE {}

parse_existing_uda_names(taskrc_text) ==
    LET lines == SplitLines(taskrc_text)
    IN UNION {LineNames(lines[i]) : i \in 1..Len(lines)}

(***************************************************************************)
(* uda_sync.upsert_uda_block                                               *)
(***************************************************************************)
Managed(block_body) ==
    <<BEGIN_MARKER, NL, GENERATED_NOTICE, NL, NL>>
    \o block_body \o <<NL, END_MARKER, NL>>

upsert_uda_block_AlwaysAppend(taskrc_text, block_body) ==
    LET sep == IF taskrc_text # <<>> /\ taskrc_text[Len(taskrc_text)] = NL
               THEN <<NL>> ELSE <<NL, NL>>
    IN taskrc_text \o sep \o Managed(block_body)

\* the variant that trims the text before it appends the block
upsert_uda_block_TrimAppend(taskrc_text, block_body) ==
    LET managed == Managed(block_body)
        start == Find(taskrc_text, BEGIN_MARKER)
        end == Find(taskrc_text, END_MARKER)
    IN IF start # 0 /\ end # 0 /\ start < end
       THEN LET pre == RStrip(SubSeq(taskrc_text, 1, start - 1)) \o <<NL, NL>>
                post == LStrip(SubSeq(taskrc_text, end + 1, Len(taskrc_text)))
            IN pre \o managed \o <<NL>> \o post
       ELSE RStrip(taskrc_text) \o <<NL, NL>> \o managed

upsert_uda_block(taskrc_text, block_body) ==
    LET managed == Managed(block_body)
        start == Find(taskrc_text, BEGIN_MARKER)
        end == Find(taskrc_text, END_MARKER)
    IN IF start # 0 /\ end # 0 /\ start < end
       THEN LET pre == RStrip(SubSeq(taskrc_text, 1, start - 1)) \o <<NL, NL>>
                post == LStrip(SubSeq(taskrc_text, end + 1, Len(taskrc_text)))
            IN pre \o managed \o <<NL>> \o post
       ELSE LET sep == IF taskrc_text # <<>>
                          /\ taskrc_text[Len(taskrc_text)] = NL
                       THEN <<NL>> ELSE <<NL, NL>>
            IN taskrc_text \o sep \o managed

(***************************************************************************)
(* Types of the process.  A class object is                                *)
(*   [cname, module, bases, own]                                           *)
(* with bases a sequence of object ids (0 is Task) and own the fields the  *)
(* class body declares.  `classes` lists the objects in creation order;    *)
(* the id of an object is its index.  A field is [name, tp, tw]: tp the    *)
(* annotation, tw the "taskwarrior" extra.                                 *)
(*                                                                         *)
(* An annotation is [origin, kind, members, args]: a class has origin ""   *)
(* and its kind (an Enum subclass has kind "Enum" and its members' values  *)
(* in declaration order); Literal[...] has origin "Literal" and its        *)
(* literals; Annotated[X, ...], typing.Union[...] and the types.UnionType  *)
(* of X | Y have their arguments in args.                                  *)
(***************************************************************************)
TaskId == 0

\* a member value or literal: a str or an int
StrVal(s) == [isInt |-> FALSE, n |-> 0, s |-> s]
IntVal(n) == [isInt |-> TRUE, n |-> n, s |-> ""]

\* str(v)
PyStr(v) == IF v.isInt THEN ToString(v.n) ELSE v.s

StrAll(vs) == [i \in 1..Len(vs) |-> PyStr(vs[i])]

Tp(k) == [origin |-> "", kind |-> k, members |-> <<>>, args |-> <<>>]
EnumTp(ms) == [origin |-> "", kind |-> "Enum", members |-> ms, args |-> <<>>]
LiteralTp(ms) ==
    [origin |-> "Literal", kind |-> "", members |-> ms, args |-> <<>>]
AnnotatedTp(x) ==
    [origin |-> "Annotated", kind |-> "", members |-> <<>>, args |-> <<x>>]
UnionTp(xs) ==
    [origin |-> "Union", kind |-> "", members |-> <<>>, args |-> xs]
UnionTypeTp(xs) ==
    [origin |-> "UnionType", kind |-> "", members |-> <<>>, args |-> xs]
NoneType == Tp("NoneType")

\* k | None for a class k, as types.UnionType holds it
OptTp(k) == UnionTypeTp(<<Tp(k), NoneType>>)

NoTw == [type |-> NoStr, label |-> NoStr, values |-> NoSeq, urgency |-> NoSeq]
FieldOf(n, tp, tw) == [name |-> n, tp |-> tp, tw |-> tw]

\* the fields Task itself declares (a part of them; all are core)
TaskFields ==
    <<FieldOf("description", Tp("str"), NoTw),
      FieldOf("project", OptTp("str"), NoTw),
      FieldOf("due", UnionTp(<<AnnotatedTp(Tp("datetime")), NoneType>>), NoTw)>>

\* typing.Annotated[T, ...] -> T
_unwrap_annotated(tp) ==
    IF tp.origin = "Annotated"
    THEN IF tp.args # <<>> THEN tp.args[1] ELSE tp
    ELSE tp

\* get_origin(tp) is Union: true of typing.Union only
_unwrap_optional(tp0) ==
    LET tp == _unwrap_annotated(tp0)
    IN IF tp.origin = "Union"
       THEN LET args == SelectSeq(tp.args, LAMBDA a : a # NoneType)
            IN IF Len(args) = 1 THEN _unwrap_annotated(args[1]) ELSE tp
       ELSE tp

\* isinstance(tp, type) and issubclass(tp, Enum)
IsEnumClass(tp) == tp.origin = "" /\ tp.kind = "Enum"

\* the variant that takes bool, a subclass of int, for a number
_infer_taskwarrior_type_Subclass(tp0) ==
    LET tp == _unwrap_optional(tp0)
    IN IF IsEnumClass(tp) THEN UDA_TYPE_STRING
       ELSE IF tp.origin = "Literal" THEN UDA_TYPE_STRING
       ELSE IF tp.origin = "" /\ tp.kind = "datetime" THEN UDA_TYPE_DATE
       ELSE IF tp.origin = "" /\ tp.kind = "timedelta" THEN UDA_TYPE_DURATION
       ELSE IF tp.origin = "" /\ tp.kind \in {"int", "float", "bool"}
            THEN UDA_TYPE_NUMERIC
       ELSE UDA_TYPE_STRING

_infer_taskwarrior_type(tp0) ==
    LET tp == _unwrap_optional(tp0)
    IN IF IsEnumClass(tp) THEN UDA_TYPE_STRING
       ELSE IF tp.origin = "Literal" THEN UDA_TYPE_STRING
       ELSE IF tp.origin = "" /\ tp.kind = "datetime" THEN UDA_TYPE_DATE
       ELSE IF tp.origin = "" /\ tp.kind = "timedelta" THEN UDA_TYPE_DURATION
       ELSE IF tp.origin = "" /\ tp.kind \in {"int", "float"}
            THEN UDA_TYPE_NUMERIC
       ELSE UDA_TYPE_STRING

_infer_values(tp0) ==
    LET tp == _unwrap_optional(tp0)
    IN IF IsEnumClass(tp) THEN SomeSeq(StrAll(tp.members))
       ELSE IF tp.origin = "Literal" THEN SomeSeq(StrAll(tp.members))
       ELSE NoSeq

\* dict update: a key keeps its position, its value is replaced
RECURSIVE PutField(_, _)
PutField(fields, f) ==
    IF fields = <<>> THEN <<f>>
    ELSE IF Head(fields).name = f.name THEN <<f>> \o Tail(fields)
    ELSE <<Head(fields)>> \o PutField(Tail(fields), f)

RECURSIVE PutFields(_, _)
PutFields(fields, fs2) ==
    IF fs2 = <<>> THEN fields
    ELSE PutFields(PutField(fields, Head(fs2)), Tail(fs2))

\* cls.model_fields: the annotations of every class of the MRO, the more
\* derived class and the earlier base winning
RECURSIVE ModelFields(_, _)
ModelFields(cls, c) ==
    IF c = TaskId THEN TaskFields
    ELSE LET RECURSIVE FromBases(_)
             FromBases(bs) ==
                 IF bs = <<>> THEN <<>>
                 ELSE PutFields(FromBases(Tail(bs)), ModelFields(cls, Head(bs)))
         IN PutFields(FromBases(cls[c].bases), cls[c].own)

\* the variant that skips computed fields only
extract_uda_specs_NoCoreFilter(cls, c) ==
    LET computed == ComputedFields
        fields == ModelFields(cls, c)
        keep == SelectSeq(fields, LAMBDA f : ~(f.name \in computed))
    IN [i \in 1..Len(keep) |->
           LET f == keep[i]
               tw == f.tw
               uda_type == IF TruthyStr(tw.type) THEN tw.type.v
                           ELSE _infer_taskwarrior_type(f.tp)
               values == IF TruthySeq(tw.values) THEN tw.values
                         ELSE _infer_values(f.tp)
           IN UdaSpec(f.name, uda_type, tw.label, values, tw.urgency)]

extract_uda_specs(cls, c) ==
    LET core == CORE_FIELDS
        computed == ComputedFields
        fields == ModelFields(cls, c)
        keep == SelectSeq(fields,
                    LAMBDA f : ~(f.name \in core \/ f.name \in computed))
    IN [i \in 1..Len(keep) |->
           LET f == keep[i]
               tw == f.tw
               uda_type == IF TruthyStr(tw.type) THEN tw.type.v
                           ELSE _infer_taskwarrior_type(f.tp)
               values == IF TruthySeq(tw.values) THEN tw.values
                         ELSE _infer_values(f.tp)
           IN UdaSpec(f.name, uda_type, tw.label, values, tw.urgency)]

(***************************************************************************)
(* uda_sync._iter_all_subclasses and discover_task_models                  *)
(***************************************************************************)
\* c.__subclasses__(): the direct subclasses in creation order
Subclasses(cls, c) ==
    SelectSeq([i \in 1..Len(cls) |-> i],
              LAMBDA i : \E k \in 1..Len(cls[i].bases) : cls[i].bases[k] = c)

RECURSIVE IterLoop_NoSeen(_, _, _, _)
IterLoop_NoSeen(cls, stack, seen, out) ==
    IF stack = <<>> THEN out
    ELSE LET sub == stack[Len(stack)]
             rest == SubSeq(stack, 1, Len(stack) - 1)
         IN IterLoop_NoSeen(cls, rest \o Subclasses(cls, sub),
                            seen \cup {sub}, Append(out, sub))

\* stack.pop() takes the last element
RECURSIVE IterLoop(_, _, _, _)
IterLoop(cls, stack, seen, out) ==
    IF stack = <<>> THEN out
    ELSE LET sub == stack[Len(stack)]
             rest == SubSeq(stack, 1, Len(stack) - 1)
         IN IF sub \in seen THEN IterLoop(cls, rest, seen, out)
            ELSE IterLoop(cls, rest \o Subclasses(cls, sub),
                          seen \cup {sub}, Append(out, sub))

_iter_all_subclasses(cls, c) == IterLoop(cls, Subclasses(cls, c), {}, <<>>)

\* allowed_modules: [some |-> FALSE] is None
NoModules == [some |-> FALSE, v |-> {}]
SomeModules(S) == [some |-> TRUE, v |-> S]

discover_task_models(cls, allowed_modules) ==
    SelectSeq(_iter_all_subclasses(cls, TaskId),
              LAMBDA sub : ~allowed_modules.some
                           \/ cls[sub].module \in allowed_modules.v)

(***************************************************************************)
(* The source directory and uda_sync.import_task_modules_from_dir          *)
(* A file is [module, defs]; module is the name _import_module_from_path   *)
(* derives from the path, defs the class statements of the file, each      *)
(* [cname, bases, own] with bases naming Task or a class of the file.      *)
(***************************************************************************)
ClassDef(n, bs, own) == [cname |-> n, bases |-> bs, own |-> own]

LabelTw(l) == [NoTw EXCEPT !.label = SomeStr(l)]

SprintField == FieldOf("sprint", Tp("str"), LabelTw("Sprint"))

Codebases ==
    [one |->
        <<[module |-> "taskdantic_autoload_1",
           defs |-> <<ClassDef("SprintTask", <<"Task">>, <<SprintField>>)>>]>>,
     shared |->
        <<[module |-> "taskdantic_autoload_1",
           defs |-> <<ClassDef("SprintTask", <<"Task">>, <<SprintField>>),
                      ClassDef("LegacyTask", <<"SprintTask">>,
                               <<FieldOf("old", OptTp("str"), NoTw)>>)>>]>>,
     conflict |->
        <<[module |-> "taskdantic_autoload_1",
           defs |-> <<ClassDef("P", <<"Task">>,
                               <<FieldOf("old", Tp("int"), NoTw)>>)>>],
          [module |-> "taskdantic_autoload_2",
           defs |-> <<ClassDef("Q", <<"Task">>,
                               <<FieldOf("old", Tp("str"), NoTw)>>)>>]>>]

\* the object a base name denotes while the module body runs
ResolveBase(cls, module, b) ==
    IF b = "Task" THEN TaskId
    ELSE CHOOSE i \in 1..Len(cls) :
             /\ cls[i].cname = b /\ cls[i].module = module
             /\ \A j \in (i + 1)..Len(cls) :
                    ~(cls[j].cname = b /\ cls[j].module = module)

\* spec.loader.exec_module(module): every class statement makes a new object
RECURSIVE ExecModule(_, _, _)
ExecModule(cls, module, defs) ==
    IF defs = <<>> THEN cls
    ELSE LET d == Head(defs)
             obj == [cname |-> d.cname, module |-> module,
                     bases |-> [k \in 1..Len(d.bases) |->
                                   ResolveBase(cls, module, d.bases[k])],
                     own |-> d.own]
         IN ExecModule(Append(cls, obj), module, Tail(defs))

\* the loop over root.rglob("*.py"), in the order `files`
RECURSIVE ImportLoop(_, _, _)
ImportLoop(cls, files, imported) ==
    IF files = <<>> THEN [classes |-> cls, imported |-> SomeModules(imported)]
    ELSE ImportLoop(ExecModule(cls, Head(files).module, Head(files).defs),
                    Tail(files), imported \cup {Head(files).module})

import_task_modules_from_dir(cls, files) == ImportLoop(cls, files, {})

\* rglob yields the files in an order the file system chooses
LoadOrders(files) == {files, Reverse(files)}

(***************************************************************************)
(* The file system: target path and its sibling temporary path             *)
(***************************************************************************)
TASKRC == "taskrc"

with_suffix_tmp_InPlace(path) == path

\* path.with_suffix(path.suffix + ".tmp")
with_suffix_tmp(path) == path \o ".tmp"

Paths == {TASKRC, TASKRC \o ".tmp"}

Absent == [exists |-> FALSE, text |-> <<>>]
FileOf(text) == [exists |-> TRUE, text |-> text]

(***************************************************************************)
(* uda_sync.sync_taskrc_udas, up to the decision to write                  *)
(***************************************************************************)
\* tasks_root: not given, a path that is no directory, or a source directory
Roots == {"none", "missing"} \cup DOMAIN Codebases

DriftRaises_AnyMode(strict_, missing_in_code) == missing_in_code # {}

\* lines 135-138: raise on drift only in strict mode
DriftRaises(strict_, missing_in_code) == strict_ /\ missing_in_code # {}

WriteNeeded_BeforeRaise(outcome, updated, original) == updated # original

\* line 144, reached only when nothing was raised before
WriteNeeded(outcome, updated, original) == outcome = "ok" /\ updated # original

\* the variant that takes every path for an existing file
PathExists_Always(target) == TRUE

\* path.exists()
PathExists(target) == target.exists

NullCall ==
    [root |-> "none", strict |-> FALSE, outcome |-> "none",
     before |-> Absent, original |-> <<>>, updated |-> <<>>,
     body |-> <<>>, merged |-> <<>>, missing |-> {}, warned |-> FALSE,
     write |-> FALSE, wrote |-> FALSE]

SyncPlan(target, cls, root, strict_, files) ==
    LET base == [NullCall EXCEPT !.root = root, !.strict = strict_,
                                 !.before = target, !.original = target.text,
                                 !.updated = target.text]
    IN IF ~PathExists(target)
       THEN [call |-> [base EXCEPT !.outcome = "FileNotFoundError"],
             classes |-> cls]
       ELSE IF root = "missing"
       THEN [call |-> [base EXCEPT !.outcome = "NotADirectoryError"],
             classes |-> cls]
       ELSE
       LET loaded == IF root # "none"
                     THEN import_task_modules_from_dir(cls, files)
                     ELSE [classes |-> cls, imported |-> NoModules]
           original == target.text
           existing == parse_existing_uda_names(original)
           found == discover_task_models(loaded.classes, loaded.imported)
           m == merge_uda_specs([i \in 1..Len(found) |->
                                    extract_uda_specs(loaded.classes, found[i])])
       IN IF m.raised
          THEN [call |-> [base EXCEPT !.outcome = "ConflictError"],
                classes |-> loaded.classes]
          ELSE
          LET missing_in_code == existing \ Keys(m.merged)
              outcome == IF DriftRaises(strict_, missing_in_code)
                         THEN "DriftError" ELSE "ok"
              block_body == render_taskrc_udas(m.merged)
              updated == upsert_uda_block(original, block_body)
          IN [call |-> [base EXCEPT !.outcome = outcome,
                                    !.updated = updated,
                                    !.body = block_body,
                                    !.merged = m.merged,
                                    !.missing = missing_in_code,
                                    !.warned = (missing_in_code # {}
                                                /\ outcome = "ok"),
                                    !.write = WriteNeeded(outcome, updated,
                                                          original)],
              classes |-> loaded.classes]

(***************************************************************************)
(* Specification Spec: syncs of one target file by one process             *)
(***************************************************************************)
TextAlphabet ==
    {NL, SP, UserLine, BEGIN_MARKER, END_MARKER,
     TypeLine("old", UDA_TYPE_STRING)}

NotRun == [raised |-> FALSE, name |-> "-", merged |-> <<>>]

MergeIdle ==
    /\ specLists = <<>> /\ mergeAB = NotRun /\ mergeBA = NotRun
    /\ textAB = <<>> /\ textBA = <<>>

DiscIdle == graph = <<>> /\ allowed = NoModules /\ models = <<>> /\ dpc = "off"

UpsertIdle == utext = <<>> /\ ubody = <<>> /\ uout = <<>> /\ upc = "off"

ExtractIdle ==
    /\ xgraph = <<>> /\ xcls = 0 /\ xspecs = <<>> /\ xudas = {}
    /\ xpc = "off"

RenderIdle ==
    /\ rspecs = <<>> /\ rout = <<>> /\ rlist = <<>> /\ rnames = {}
    /\ rpc = "off"

\* an optional datetime: None or a reading of the clock
NoTime == [some |-> FALSE, t |-> 0]
At(t) == [some |-> TRUE, t |-> t]

NoOp == [name |-> "none", raised |-> FALSE, u |-> "", t0 |-> 0]

NoTask ==
    [uuid |-> "", status |-> "", start |-> NoTime, end |-> NoTime,
     modified |-> 0, tags |-> <<>>, annotations |-> <<>>, depends |-> <<>>]

TaskIdle ==
    /\ task = NoTask /\ task0 = NoTask /\ tbefore = NoTask
    /\ top = NoOp /\ clock = 0

ResyncIdle == sfile = Absent /\ sdir = <<>> /\ stypes = <<>> /\ shist = <<>>

\* a type the process holds from an ordinary import
Resident ==
    <<[cname |-> "AppTask", module |-> "app", bases |-> <<TaskId>>,
       own |-> <<FieldOf("points", Tp("int"), NoTw)>>]>>

\* the files of the source directory, none when there is no directory
FilesOf(root) == IF root \in DOMAIN Codebases THEN Codebases[root] ELSE <<>>

\* the spec of an attribute that the code declared once and no longer does
OldSpec == UdaSpec("old", UDA_TYPE_STRING, NoStr, NoSeq, NoSeq)

\* files as a sync of that earlier code left them: the managed block
\* declares old, after a user line or after a hand-written declaration
EarlierFiles ==
    {upsert_uda_block(t, render_taskrc_udas(<<OldSpec>>)) :
        t \in {<<UserLine, NL>>, <<TypeLine("points", UDA_TYPE_NUMERIC), NL>>}}

\* The arguments are those of the environment (auto_sync_taskrc_from_env):
\* the same for every sync of a behaviour.
Init ==
    /\ \E f \in {Absent}
              \cup {FileOf(t) : t \in SeqsUpTo(TextAlphabet, MaxText)
                                      \cup EarlierFiles} :
           /\ fs = [p \in Paths |-> IF p = TASKRC THEN f ELSE Absent]
           /\ file0 = f
    /\ tasks_root \in Roots
    /\ strict \in BOOLEAN
    /\ classes \in {<<>>, Resident}
    /\ pc = "idle"
    /\ call = NullCall
    /\ prev = NullCall
    /\ runs = 0
    /\ MergeIdle
    /\ DiscIdle
    /\ UpsertIdle
    /\ ExtractIdle
    /\ RenderIdle
    /\ TaskIdle
    /\ ResyncIdle

\* sync_taskrc_udas lines 118-144: everything before the write
SyncCall(files) ==
    /\ pc = "idle"
    /\ runs < MaxSyncs
    /\ LET plan == SyncPlan(fs[TASKRC], classes, tasks_root, strict, files)
       IN /\ classes' = plan.classes
          /\ call' = plan.call
          /\ prev' = call
          /\ IF plan.call.write
             THEN pc' = "open" /\ runs' = runs
             ELSE pc' = "idle" /\ runs' = runs + 1
    /\ UNCHANGED <<fs, tasks_root, strict, file0>>
    /\ UNCHANGED <<mergeVars, discVars, upsertVars, extractVars,
                 renderVars,
                 taskVars,
                 resyncVars>>

\* tmp.write_text opens the temporary path for writing: created or truncated
TmpOpen ==
    /\ pc = "open"
    /\ fs' = [fs EXCEPT ![with_suffix_tmp(TASKRC)] = FileOf(<<>>)]
    /\ pc' = "write"
    /\ UNCHANGED <<classes, tasks_root, strict, call, prev, runs, file0>>
    /\ UNCHANGED <<mergeVars, discVars, upsertVars, extractVars,
                 renderVars,
                 taskVars,
                 resyncVars>>

\* the data reaches the temporary path in two pieces (any proper prefix may
\* be on disk in between; the first half stands for them)
TmpWrite ==
    /\ pc = "write"
    /\ LET tmp == with_suffix_tmp(TASKRC)
           half == (Len(call.updated) + 1) \div 2
           k == IF Len(fs[tmp].text) < half THEN half ELSE Len(call.updated)
       IN /\ fs' = [fs EXCEPT ![tmp] = FileOf(SubSeq(call.updated, 1, k))]
          /\ pc' = IF k = Len(call.updated) THEN "replace" ELSE "write"
    /\ UNCHANGED <<classes, tasks_root, strict, call, prev, runs, file0>>
    /\ UNCHANGED <<mergeVars, discVars, upsertVars, extractVars,
                 renderVars,
                 taskVars,
                 resyncVars>>

\* tmp.replace(path): one rename
TmpReplace ==
    /\ pc = "replace"
    /\ LET tmp == with_suffix_tmp(TASKRC)
       IN fs' = [p \in Paths |->
                    IF p = TASKRC THEN fs[tmp]
                    ELSE IF p = tmp THEN Absent ELSE fs[p]]
    /\ call' = [call EXCEPT !.wrote = TRUE]
    /\ pc' = "idle"
    /\ runs' = runs + 1
    /\ UNCHANGED <<classes, tasks_root, strict, prev, file0>>
    /\ UNCHANGED <<mergeVars, discVars, upsertVars, extractVars,
                 renderVars,
                 taskVars,
                 resyncVars>>

\* the process dies between two steps of the write
Crash ==
    /\ pc \in {"open", "write", "replace"}
    /\ pc' = "crashed"
    /\ UNCHANGED <<fs, classes, tasks_root, strict, call, prev, runs, file0>>
    /\ UNCHANGED <<mergeVars, discVars, upsertVars, extractVars,
                 renderVars,
                 taskVars,
                 resyncVars>>

Sync == \E files \in LoadOrders(FilesOf(tasks_root)) : SyncCall(files)

Next ==
    \/ Sync
    \/ TmpOpen
    \/ TmpWrite
    \/ TmpReplace
    \/ Crash

Spec == Init /\ [][Next]_vars

Target == fs[TASKRC]

Completed == pc = "idle" /\ call.outcome # "none"

(***************************************************************************)
(* Specification SpecUpsert: upsert_uda_block applied to any short text    *)
(***************************************************************************)
SprintSpec == UdaSpec("sprint", UDA_TYPE_STRING, SomeStr("Sprint"), NoSeq, NoSeq)

UpsertBodies == {render_taskrc_udas(<<>>), render_taskrc_udas(<<SprintSpec>>)}

SyncIdle ==
    /\ fs = [p \in Paths |-> Absent]
    /\ file0 = Absent
    /\ tasks_root = "none"
    /\ strict = FALSE
    /\ classes = <<>>
    /\ pc = "off"
    /\ call = NullCall
    /\ prev = NullCall
    /\ runs = 0

InitUpsert ==
    /\ utext \in SeqsUpTo(TextAlphabet, MaxUpsertText)
    /\ ubody \in UpsertBodies
    /\ uout = <<>>
    /\ upc = "ready"
    /\ SyncIdle
    /\ MergeIdle
    /\ DiscIdle
    /\ ExtractIdle
    /\ RenderIdle
    /\ TaskIdle
    /\ ResyncIdle

Upsert ==
    /\ upc = "ready"
    /\ uout' = upsert_uda_block(utext, ubody)
    /\ upc' = "done"
    /\ UNCHANGED <<utext, ubody>>
    /\ UNCHANGED <<syncVars, mergeVars, discVars, extractVars,
                 renderVars,
                 taskVars,
                 resyncVars>>

NextUpsert == Upsert

SpecUpsert == InitUpsert /\ [][NextUpsert]_vars

(***************************************************************************)
(* Specification SpecMerge: merge_uda_specs on spec lists, in the given    *)
(* and in the reversed discovery order                                     *)
(***************************************************************************)
Entry(v, c) == [val |-> v, coeff |-> c]

SpecUniverse ==
    {UdaSpec("points", UDA_TYPE_NUMERIC, NoStr, NoSeq, NoSeq),
     UdaSpec("points", UDA_TYPE_STRING, NoStr, NoSeq, NoSeq),
     UdaSpec("points", UDA_TYPE_NUMERIC, SomeStr("Points"), NoSeq, NoSeq),
     UdaSpec("points", UDA_TYPE_STRING, NoStr, SomeSeq(<<"low", "high">>), NoSeq),
     UdaSpec("points", UDA_TYPE_STRING, NoStr, SomeSeq(<<"high", "low">>), NoSeq),
     UdaSpec("sprint", UDA_TYPE_STRING, NoStr, NoSeq,
             SomeSeq(<<Entry("low", "1.0"), Entry("high", "2.0")>>)),
     UdaSpec("sprint", UDA_TYPE_STRING, NoStr, NoSeq,
             SomeSeq(<<Entry("high", "2.0"), Entry("low", "1.0")>>))}

\* the spec lists of consecutive types: q cut after the positions in cuts
RECURSIVE SplitAt(_, _)
SplitAt(q, cuts) ==
    IF q = <<>> THEN <<>>
    ELSE IF cuts = {} THEN <<q>>
    ELSE LET c == CHOOSE x \in cuts : \A y \in cuts : x <= y
         IN <<SubSeq(q, 1, c)>>
            \o SplitAt(SubSeq(q, c + 1, Len(q)), {x - c : x \in cuts \ {c}})

InitMerge ==
    /\ \E q \in SeqsUpTo(SpecUniverse, MaxSpecs) :
           \E cuts \in SUBSET (1..(Len(q) - 1)) : specLists = SplitAt(q, cuts)
    /\ mergeAB = NotRun
    /\ mergeBA = NotRun
    /\ textAB = <<>>
    /\ textBA = <<>>
    /\ SyncIdle
    /\ DiscIdle
    /\ UpsertIdle
    /\ ExtractIdle
    /\ RenderIdle
    /\ TaskIdle
    /\ ResyncIdle

\* sync_taskrc_udas lines 130 and 140: the registry of the spec lists and,
\* when the merge has not raised, the text rendered from its values
RenderMerged(m) == IF m.raised THEN <<>> ELSE render_taskrc_udas(m.merged)

MergeForward ==
    /\ mergeAB = NotRun
    /\ mergeAB' = merge_uda_specs(specLists)
    /\ textAB' = RenderMerged(merge_uda_specs(specLists))
    /\ UNCHANGED <<specLists, mergeBA, textBA>>
    /\ UNCHANGED <<syncVars, discVars, upsertVars, extractVars,
                 renderVars,
                 taskVars,
                 resyncVars>>

MergeReversed ==
    /\ mergeBA = NotRun
    /\ mergeBA' = merge_uda_specs(Reverse(specLists))
    /\ textBA' = RenderMerged(merge_uda_specs(Reverse(specLists)))
    /\ UNCHANGED <<specLists, mergeAB, textAB>>
    /\ UNCHANGED <<syncVars, discVars, upsertVars, extractVars,
                 renderVars,
                 taskVars,
                 resyncVars>>

NextMerge == MergeForward \/ MergeReversed

SpecMerge == InitMerge /\ [][NextMerge]_vars

(***************************************************************************)
(* Specification SpecDiscover: discover_task_models on any small class     *)
(* graph                                                                   *)
(***************************************************************************)
Modules == {"m1", "m2"}

RECURSIVE SeqOfSet(_)
SeqOfSet(S) ==
    IF S = {} THEN <<>>
    ELSE LET m == CHOOSE x \in S : \A y \in S : x <= y
         IN <<m>> \o SeqOfSet(S \ {m})

\* class i may derive from Task (0) and from classes created before it
Graphs(n) ==
    {[i \in 1..n |-> [cname |-> "C", module |-> g[i][2],
                      bases |-> SeqOfSet(g[i][1]), own |-> <<>>]] :
        g \in {h \in [1..n -> (SUBSET (0..(n - 1))) \X Modules] :
                  \A i \in 1..n : h[i][1] \subseteq 0..(i - 1)}}

InitDiscover ==
    /\ graph \in UNION {Graphs(n) : n \in 0..MaxClasses}
    /\ allowed \in {NoModules} \cup {SomeModules(S) : S \in SUBSET Modules}
    /\ models = <<>>
    /\ dpc = "ready"
    /\ SyncIdle
    /\ MergeIdle
    /\ UpsertIdle
    /\ ExtractIdle
    /\ RenderIdle
    /\ TaskIdle
    /\ ResyncIdle

Discover ==
    /\ dpc = "ready"
    /\ models' = discover_task_models(graph, allowed)
    /\ dpc' = "done"
    /\ UNCHANGED <<graph, allowed>>
    /\ UNCHANGED <<syncVars, mergeVars, upsertVars, extractVars,
                 renderVars,
                 taskVars,
                 resyncVars>>

NextDiscover == Discover

SpecDiscover == InitDiscover /\ [][NextDiscover]_vars

(***************************************************************************)
(* Specification SpecExtract: extract_uda_specs on a Task subclass that    *)
(* inherits from a plain mixin, for any annotation and any override of     *)
(* the field the most derived class declares, and get_udas of an instance  *)
(* of the subclass                                                         *)
(***************************************************************************)
\* Task.COMPUTED_FIELDS
COMPUTED_FIELDS == {"id", "urgency", "mask", "imask", "parent", "recur"}

\* Task.is_core_field; no class of this model redefines core_field_names
is_core_field(name) ==
    \/ name \in CORE_FIELDS
    \/ name \in ComputedFields
    \/ name \in COMPUTED_FIELDS

\* the keys of Task.get_udas() for an instance without extra values:
\* model_dump(exclude=computed) has one key per field not excluded
get_udas(cls, c) ==
    LET core == CORE_FIELDS
        computed == ComputedFields \cup COMPUTED_FIELDS
        fields == ModelFields(cls, c)
        all_data == {fields[i].name : i \in 1..Len(fields)} \ computed
    IN {k \in all_data : k \notin core /\ k \notin COMPUTED_FIELDS}

BareTypes ==
    {Tp("str"), Tp("int"), Tp("float"), Tp("bool"), Tp("datetime"),
     Tp("timedelta"),
     EnumTp(<<StrVal("S23"), StrVal("S24")>>),
     EnumTp(<<IntVal(1), IntVal(2)>>),
     LiteralTp(<<StrVal("low"), StrVal("high")>>)}

\* Optional[T], the same object as Union[T, None]
OptionalOf(T) == UnionTp(<<T, NoneType>>)

\* T | None: type.__or__ gives a types.UnionType for a class T (a
\* typing.Union from Python 3.14 on), the typing forms give a typing.Union
PipeNone(T) ==
    IF T.origin = ""
    THEN {UnionTypeTp(<<T, NoneType>>), UnionTp(<<T, NoneType>>)}
    ELSE {UnionTp(<<T, NoneType>>)}

\* the annotations that spell "T or None"
Nullable(T) ==
    LET direct == {OptionalOf(T)} \cup PipeNone(T)
    IN direct
       \cup {AnnotatedTp(n) : n \in direct}
       \cup {OptionalOf(AnnotatedTp(T))}
       \cup {OptionalOf(AnnotatedTp(OptionalOf(T)))}

Annotations ==
    BareTypes \cup {AnnotatedTp(T) : T \in BareTypes}
              \cup UNION {Nullable(T) : T \in BareTypes}
              \cup {UnionTp(<<Tp("int"), Tp("str"), NoneType>>)}

\* the "taskwarrior" extras uda(...) can build
Overrides ==
    {NoTw,
     [NoTw EXCEPT !.type = SomeStr(UDA_TYPE_NUMERIC)],
     [NoTw EXCEPT !.type = SomeStr("")],
     [NoTw EXCEPT !.type = SomeStr("integer")],
     [NoTw EXCEPT !.label = SomeStr("Story Points")],
     [NoTw EXCEPT !.label = SomeStr("")],
     [NoTw EXCEPT !.values = SomeSeq(<<"one", "two">>)],
     [NoTw EXCEPT !.values = SomeSeq(<<>>)],
     [NoTw EXCEPT !.urgency = SomeSeq(<<Entry("one", "1.0")>>)],
     [NoTw EXCEPT !.type = SomeStr(UDA_TYPE_DATE),
                  !.label = SomeStr("Story Points"),
                  !.values = SomeSeq(<<"one", "two">>),
                  !.urgency = SomeSeq(<<>>)]}

\* class UDAMixin; class A(UDAMixin, Task); class B(A)
ExtractGraphs ==
    {<<[cname |-> "UDAMixin", module |-> "app", bases |-> <<>>, own |-> m],
       [cname |-> "A", module |-> "app", bases |-> <<1, TaskId>>, own |-> a],
       [cname |-> "B", module |-> "app", bases |-> <<2>>,
        own |-> <<FieldOf("points", tp, tw)>>]>> :
        m \in {<<>>, <<SprintField>>},
        a \in {<<>>, <<FieldOf("project", Tp("int"), NoTw)>>,
               <<FieldOf("sprint", Tp("int"), NoTw)>>,
               <<FieldOf("recur", Tp("str"), NoTw)>>},
        tp \in Annotations, tw \in Overrides}

InitExtract ==
    /\ xgraph \in ExtractGraphs
    /\ xcls \in {2, 3}
    /\ xspecs = <<>>
    /\ xudas = {}
    /\ xpc = "ready"
    /\ SyncIdle
    /\ MergeIdle
    /\ DiscIdle
    /\ UpsertIdle
    /\ RenderIdle
    /\ TaskIdle
    /\ ResyncIdle

Extract ==
    /\ xpc = "ready"
    /\ xspecs' = extract_uda_specs(xgraph, xcls)
    /\ xudas' = get_udas(xgraph, xcls)
    /\ xpc' = "done"
    /\ UNCHANGED <<xgraph, xcls>>
    /\ UNCHANGED <<syncVars, mergeVars, discVars, upsertVars,
                 renderVars,
                 taskVars,
                 resyncVars>>

NextExtract == Extract

SpecExtract == InitExtract /\ [][NextExtract]_vars

(***************************************************************************)
(* Specification SpecRender: render_taskrc_udas and UDARegistry.list on    *)
(* specs in any order, and parse_existing_uda_names on the rendered text   *)
(***************************************************************************)
RenderUniverse ==
    {UdaSpec("old", UDA_TYPE_STRING, NoStr, NoSeq, NoSeq),
     UdaSpec("points", UDA_TYPE_NUMERIC, SomeStr("Points"), NoSeq, NoSeq),
     UdaSpec("points", UDA_TYPE_NUMERIC, SomeStr(""), SomeSeq(<<>>),
             SomeSeq(<<>>)),
     UdaSpec("sprint", UDA_TYPE_STRING, SomeStr("Sprint"),
             SomeSeq(<<"low", "high">>),
             SomeSeq(<<Entry("low", "1.0"), Entry("high", "2.0")>>)),
     UdaSpec("sprint", UDA_TYPE_STRING, NoStr, SomeSeq(<<"high", "low">>),
             SomeSeq(<<Entry("high", "2.0"), Entry("low", "1.0")>>)),
     UdaSpec("old", UDA_TYPE_STRING, SomeStr(MarkedLabel), NoSeq, NoSeq)}

InitRender ==
    /\ rspecs \in SeqsUpTo(RenderUniverse, MaxSpecs)
    /\ rout = <<>>
    /\ rlist = <<>>
    /\ rnames = {}
    /\ rpc = "ready"
    /\ SyncIdle
    /\ MergeIdle
    /\ DiscIdle
    /\ UpsertIdle
    /\ ExtractIdle
    /\ TaskIdle
    /\ ResyncIdle

Render ==
    /\ rpc = "ready"
    /\ rout' = render_taskrc_udas(rspecs)
    /\ rlist' = UDARegistry_list(rspecs)
    /\ rnames' = parse_existing_uda_names(render_taskrc_udas(rspecs))
    /\ rpc' = "done"
    /\ UNCHANGED rspecs
    /\ UNCHANGED <<syncVars, mergeVars, discVars, upsertVars, extractVars,
                 taskVars,
                 resyncVars>>

NextRender == Render

SpecRender == InitRender /\ [][NextRender]_vars

(***************************************************************************)
(* Specification SpecTask: the business methods of one Task and of         *)
(* TaskService on it.  Time is the reading of a clock that never goes      *)
(* back; a uuid is a name.                                                 *)
(***************************************************************************)
PENDING == "pending"
COMPLETED == "completed"
DELETED == "deleted"
RECURRING == "recurring"
WAITING == "waiting"
Status == {PENDING, COMPLETED, DELETED, RECURRING, WAITING}

SelfUuid == "self"
Uuids == {SelfUuid, "u1", "u2"}

\* the model validator, run at construction and after every assignment
validate_business_rules(t) ==
    IF t.status = COMPLETED /\ ~t.end.some
    THEN [t EXCEPT !.end = At(t.modified)]
    ELSE t

\* the variant that refuses deleted tasks only
CannotComplete_DeletedOnly(status) == status = DELETED

\* the two tests that raise ValueError in complete
CannotComplete(status) == status = DELETED \/ status = COMPLETED

\* Task.complete; now1 and now2 are the two readings of the clock
complete(t, now1, now2) ==
    IF CannotComplete(t.status) THEN [task |-> t, raised |-> TRUE]
    ELSE LET t1 == validate_business_rules([t EXCEPT !.status = COMPLETED])
             t2 == validate_business_rules([t1 EXCEPT !.end = At(now1)])
             t3 == validate_business_rules([t2 EXCEPT !.modified = now2])
         IN [task |-> t3, raised |-> FALSE]

\* TaskService.complete
service_complete(t, now) ==
    IF CannotComplete(t.status) THEN [task |-> t, raised |-> TRUE]
    ELSE LET t1 == validate_business_rules([t EXCEPT !.status = COMPLETED])
             t2 == validate_business_rules([t1 EXCEPT !.end = At(now)])
             t3 == validate_business_rules([t2 EXCEPT !.modified = now])
         IN [task |-> t3, raised |-> FALSE]

\* the variant that appends without looking
add_dependency_NoCheck(t, uuid_to_add, now) ==
    IF uuid_to_add = t.uuid THEN [task |-> t, raised |-> TRUE]
    ELSE [task |-> validate_business_rules(
                       [t EXCEPT !.depends = Append(t.depends, uuid_to_add),
                                 !.modified = now]),
          raised |-> FALSE]

\* Task.add_dependency and TaskService.add_dependency
add_dependency(t, uuid_to_add, now) ==
    IF uuid_to_add = t.uuid THEN [task |-> t, raised |-> TRUE]
    ELSE IF uuid_to_add \notin Range(t.depends)
    THEN [task |-> validate_business_rules(
                       [t EXCEPT !.depends = Append(t.depends, uuid_to_add),
                                 !.modified = now]),
          raised |-> FALSE]
    ELSE [task |-> t, raised |-> FALSE]

\* list.remove(x): the first occurrence goes
ListRemove(q, x) ==
    LET i == Find(q, x)
    IN SubSeq(q, 1, i - 1) \o SubSeq(q, i + 1, Len(q))

\* Task.remove_dependency and TaskService.remove_dependency
remove_dependency(t, uuid_to_remove, now) ==
    IF uuid_to_remove \in Range(t.depends)
    THEN [task |-> validate_business_rules(
                       [t EXCEPT !.depends = ListRemove(t.depends, uuid_to_remove),
                                 !.modified = now]),
          raised |-> FALSE]
    ELSE [task |-> t, raised |-> FALSE]

\* a task as Task(...) or an import builds it
InitTask ==
    /\ \E st \in Status, e \in {NoTime, At(0)},
          d \in SeqsUpTo(Uuids, MaxDepends) :
           task = validate_business_rules(
                      [uuid |-> SelfUuid, status |-> st, start |-> NoTime,
                       end |-> e, modified |-> 0, tags |-> <<>>,
                       annotations |-> <<>>, depends |-> d])
    /\ task0 = task
    /\ tbefore = task
    /\ top = NoOp
    /\ clock = 0
    /\ SyncIdle
    /\ MergeIdle
    /\ DiscIdle
    /\ UpsertIdle
    /\ ExtractIdle
    /\ RenderIdle
    /\ ResyncIdle

Others ==
    <<syncVars, mergeVars, discVars, upsertVars, extractVars, renderVars,
      resyncVars>>

\* the result r of operation name with argument u
Done(name, u, r) ==
    /\ task' = r.task
    /\ tbefore' = task
    /\ top' = [name |-> name, raised |-> r.raised, u |-> u, t0 |-> clock]
    /\ UNCHANGED task0
    /\ UNCHANGED Others

Tick ==
    /\ task.uuid = SelfUuid
    /\ clock < MaxClock
    /\ clock' = clock + 1
    /\ UNCHANGED <<task, task0, tbefore, top>>
    /\ UNCHANGED Others

Complete ==
    /\ task.uuid = SelfUuid
    /\ \E now2 \in clock..MaxClock :
           /\ now2 <= clock + 1
           /\ clock' = (IF CannotComplete(task.status) THEN clock ELSE now2)
           /\ Done("complete", "", complete(task, clock, now2))

ServiceComplete ==
    /\ task.uuid = SelfUuid
    /\ clock' = clock
    /\ Done("service_complete", "", service_complete(task, clock))

AddDependency ==
    /\ task.uuid = SelfUuid
    /\ clock' = clock
    /\ \E u \in Uuids : Done("add_dependency", u, add_dependency(task, u, clock))

ServiceAddDependency ==
    /\ task.uuid = SelfUuid
    /\ clock' = clock
    /\ \E u \in Uuids :
           Done("service_add_dependency", u, add_dependency(task, u, clock))

RemoveDependency ==
    /\ task.uuid = SelfUuid
    /\ clock' = clock
    /\ \E u \in Uuids :
           Done("remove_dependency", u, remove_dependency(task, u, clock))

ServiceRemoveDependency ==
    /\ task.uuid = SelfUuid
    /\ clock' = clock
    /\ \E u \in Uuids :
           Done("service_remove_dependency", u,
                remove_dependency(task, u, clock))

NextTask ==
    \/ Tick
    \/ Complete
    \/ ServiceComplete
    \/ AddDependency
    \/ ServiceAddDependency
    \/ RemoveDependency
    \/ ServiceRemoveDependency

SpecTask == InitTask /\ [][NextTask]_vars

(***************************************************************************)
(* Specification SpecService: the operations of TaskService on one Task    *)
(***************************************************************************)
Tags == {"home"}
Notes == {"called"}

\* the variant that refuses started tasks only
CannotStart_StartedOnly(t) == t.start.some

\* the two tests that raise ValueError in start
CannotStart(t) == t.status # PENDING \/ t.start.some

\* TaskService.start
service_start(t, now) ==
    IF CannotStart(t) THEN [task |-> t, raised |-> TRUE]
    ELSE LET t1 == validate_business_rules([t EXCEPT !.start = At(now)])
             t2 == validate_business_rules([t1 EXCEPT !.modified = now])
         IN [task |-> t2, raised |-> FALSE]

\* TaskService.stop; now is the reading of the clock after start is cleared
service_stop(t, now) ==
    IF ~t.start.some THEN [task |-> t, raised |-> TRUE]
    ELSE LET t1 == validate_business_rules([t EXCEPT !.start = NoTime])
             t2 == validate_business_rules([t1 EXCEPT !.modified = now])
         IN [task |-> t2, raised |-> FALSE]

\* TaskService.delete
service_delete(t, now) ==
    IF t.status = DELETED THEN [task |-> t, raised |-> TRUE]
    ELSE LET t1 == validate_business_rules([t EXCEPT !.status = DELETED])
             t2 == validate_business_rules([t1 EXCEPT !.end = At(now)])
             t3 == validate_business_rules([t2 EXCEPT !.modified = now])
         IN [task |-> t3, raised |-> FALSE]

\* TaskService.annotate; entry is the argument (None: the first reading of
\* the clock, now1), now2 the second reading
service_annotate(t, description, entry, now1, now2) ==
    LET annotation == [entry |-> IF entry.some THEN entry.t ELSE now1,
                       description |-> description]
    IN [task |-> validate_business_rules(
                     [t EXCEPT !.annotations = Append(t.annotations, annotation),
                               !.modified = now2]),
        raised |-> FALSE]

\* TaskService.tag
service_tag(t, tag, now) ==
    IF tag \notin Range(t.tags)
    THEN [task |-> validate_business_rules(
                       [t EXCEPT !.tags = Append(t.tags, tag),
                                 !.modified = now]),
          raised |-> FALSE]
    ELSE [task |-> t, raised |-> FALSE]

\* TaskService.untag
service_untag(t, tag, now) ==
    IF tag \in Range(t.tags)
    THEN [task |-> validate_business_rules(
                       [t EXCEPT !.tags = ListRemove(t.tags, tag),
                                 !.modified = now]),
          raised |-> FALSE]
    ELSE [task |-> t, raised |-> FALSE]

\* a task as Task(...) or an import builds it, started or not
InitService ==
    /\ \E st \in Status, b \in {NoTime, At(0)}, e \in {NoTime, At(0)} :
           task = validate_business_rules(
                      [uuid |-> SelfUuid, status |-> st, start |-> b,
                       end |-> e, modified |-> 0, tags |-> <<>>,
                       annotations |-> <<>>, depends |-> <<>>])
    /\ task0 = task
    /\ tbefore = task
    /\ top = NoOp
    /\ clock = 0
    /\ SyncIdle
    /\ MergeIdle
    /\ DiscIdle
    /\ UpsertIdle
    /\ ExtractIdle
    /\ RenderIdle
    /\ ResyncIdle

ServiceStart ==
    /\ task.uuid = SelfUuid
    /\ clock' = clock
    /\ Done("service_start", "", service_start(task, clock))

ServiceStop ==
    /\ task.uuid = SelfUuid
    /\ clock' = clock
    /\ Done("service_stop", "", service_stop(task, clock))

ServiceDelete ==
    /\ task.uuid = SelfUuid
    /\ clock' = clock
    /\ Done("service_delete", "", service_delete(task, clock))

ServiceAnnotate ==
    /\ task.uuid = SelfUuid
    /\ Len(task.annotations) < MaxAnnotations
    /\ \E d \in Notes, entry \in {NoTime, At(0)}, now2 \in clock..MaxClock :
           /\ now2 <= clock + 1
           /\ clock' = now2
           /\ Done("service_annotate", d,
                   service_annotate(task, d, entry, clock, now2))

ServiceTag ==
    /\ task.uuid = SelfUuid
    /\ clock' = clock
    /\ \E tag \in Tags : Done("service_tag", tag, service_tag(task, tag, clock))

ServiceUntag ==
    /\ task.uuid = SelfUuid
    /\ clock' = clock
    /\ \E tag \in Tags :
           Done("service_untag", tag, service_untag(task, tag, clock))

NextService ==
    \/ Tick
    \/ ServiceComplete
    \/ ServiceStart
    \/ ServiceStop
    \/ ServiceDelete
    \/ ServiceAnnotate
    \/ ServiceTag
    \/ ServiceUntag
    \/ ServiceAddDependency
    \/ ServiceRemoveDependency

SpecService == InitService /\ [][NextService]_vars

(***************************************************************************)
(* Specification SpecResync: one process syncs again and again with a      *)
(* source directory whose file may be edited between two syncs.  A sync is *)
(* one step here (no crash on the way); the type objects of earlier loads  *)
(* stay in the process until the garbage collector takes them.             *)
(***************************************************************************)
ResyncRoot == "src"

\* the source file in two states: P declares old, Q(P) declares sprint
SourceVersions ==
    {<<[module |-> "taskdantic_autoload_1",
        defs |-> <<ClassDef("P", <<"Task">>, <<f>>),
                   ClassDef("Q", <<"P">>, <<SprintField>>)>>]>> :
        f \in {FieldOf("old", Tp("int"), NoTw),
               FieldOf("old", Tp("str"), LabelTw("Old"))}}

\* the type objects nothing refers to any more: sys.modules[mod_name] was
\* replaced by the module of a later load, which defines the name anew
\* (every state of the file defines the same class names)
Garbage(cls) ==
    {i \in 1..Len(cls) :
        \E j \in (i + 1)..Len(cls) :
            cls[j].module = cls[i].module /\ cls[j].cname = cls[i].cname}

\* the process without the type objects dead: the weak references of
\* __subclasses__ to them are gone, the ids of the others move up
Without(cls, dead) ==
    LET keep == SelectSeq([i \in 1..Len(cls) |-> i], LAMBDA i : i \notin dead)
        NewId(b) == IF b = TaskId THEN TaskId
                    ELSE Cardinality({k \in 1..Len(keep) : keep[k] <= b})
    IN [k \in 1..Len(keep) |->
           [cls[keep[k]] EXCEPT
               !.bases = [n \in 1..Len(cls[keep[k]].bases) |->
                             NewId(cls[keep[k]].bases[n])]]]

\* a collection between two syncs
Collected(cls) == Without(cls, Garbage(cls))

\* line 43, sys.modules[mod_name] = module, drops the module of the earlier
\* load of the path; its types are garbage from then on, and a collection
\* that runs before discover_task_models takes them
CollectedInSync(cls, files) ==
    Without(cls, {i \in 1..Len(cls) :
                     \E k \in 1..Len(files) : files[k].module = cls[i].module})

InitResync ==
    /\ sfile \in {FileOf(t) : t \in SeqsUpTo(TextAlphabet, MaxResyncText)
                                   \cup EarlierFiles}
    /\ sdir \in SourceVersions
    /\ stypes = <<>>
    /\ shist = <<>>
    /\ SyncIdle
    /\ MergeIdle
    /\ DiscIdle
    /\ UpsertIdle
    /\ ExtractIdle
    /\ RenderIdle
    /\ TaskIdle

NotResync ==
    <<syncVars, mergeVars, discVars, upsertVars, extractVars, renderVars,
      taskVars>>

\* sync_taskrc_udas(taskrc_path, tasks_root), strict not set: lines 118-147.
\* Whether the collector runs during the load is not in the program's hands.
Resync ==
    /\ sdir # <<>>
    /\ Len(shist) < MaxResyncs
    /\ \E files \in LoadOrders(sdir) :
       \E types \in {stypes, CollectedInSync(stypes, files)} :
           LET plan == SyncPlan(sfile, types, ResyncRoot, FALSE, files)
               after == IF plan.call.write THEN FileOf(plan.call.updated)
                        ELSE sfile
           IN /\ stypes' = plan.classes
              /\ sfile' = after
              /\ shist' = Append(shist, [dir |-> sdir, call |-> plan.call,
                                         after |-> after.text])
    /\ UNCHANGED sdir
    /\ UNCHANGED NotResync

\* the user edits the source file between two syncs
EditFile ==
    /\ shist # <<>>
    /\ Len(shist) < MaxResyncs
    /\ \E d \in SourceVersions \ {sdir} : sdir' = d
    /\ UNCHANGED <<sfile, stypes, shist>>
    /\ UNCHANGED NotResync

\* the garbage collector runs
Collect ==
    /\ Garbage(stypes) # {}
    /\ stypes' = Collected(stypes)
    /\ UNCHANGED <<sfile, sdir, shist>>
    /\ UNCHANGED NotResync

NextResync ==
    \/ Resync
    \/ EditFile
    \/ Collect

SpecResync == InitResync /\ [][NextResync]_vars

(***************************************************************************)
(* Properties                                                              *)
(***************************************************************************)
Contains(text, sub) ==
    \E i \in 1..(Len(text) - Len(sub) + 1) :
        SubSeq(text, i, i + Len(sub) - 1) = sub

NoDuplicates(q) == \A i, j \in 1..Len(q) : q[i] = q[j] => i = j

ErrorOutcomes ==
    {"FileNotFoundError", "NotADirectoryError", "ConflictError", "DriftError"}

TmpFile == fs[TASKRC \o ".tmp"]

\* C1: a successful sync that directly follows a successful sync with the
\* same source directory performs no write and leaves the file as the first
\* sync left it.
C1_SecondSyncNoWrite ==
    (Completed /\ call.outcome = "ok" /\ prev.outcome = "ok"
     /\ call.root = prev.root)
    => (~call.wrote /\ Target.text = call.original)

\* a line that holds nothing but spaces
BlankLine(l) == \A i \in 1..Len(l) : l[i] = SP

RECURSIVE TrimBlankTail(_)
TrimBlankTail(lines) ==
    IF lines # <<>> /\ BlankLine(lines[Len(lines)])
    THEN TrimBlankTail(SubSeq(lines, 1, Len(lines) - 1))
    ELSE lines

RECURSIVE TrimBlankHead(_)
TrimBlankHead(lines) ==
    IF lines # <<>> /\ BlankLine(Head(lines))
    THEN TrimBlankHead(Tail(lines))
    ELSE lines

HasBlock(text) ==
    /\ Find(text, BEGIN_MARKER) # 0
    /\ Find(text, END_MARKER) # 0
    /\ Find(text, BEGIN_MARKER) < Find(text, END_MARKER)

BeforeBlock(text) == SubSeq(text, 1, Find(text, BEGIN_MARKER) - 1)
AfterBlock(text) == SubSeq(text, Find(text, END_MARKER) + 1, Len(text))

\* C2: for a text with a begin marker followed by an end marker, the lines
\* before the begin marker and the lines after the end marker are the same
\* after upsert_uda_block as before it, once the blank lines at the two
\* block boundaries are left out of the comparison.
C2_OutsidePreserved ==
    (upc = "done" /\ HasBlock(utext))
    => /\ HasBlock(uout)
       /\ TrimBlankTail(SplitLines(BeforeBlock(uout)))
              = TrimBlankTail(SplitLines(BeforeBlock(utext)))
       /\ TrimBlankHead(SplitLines(AfterBlock(uout)))
              = TrimBlankHead(SplitLines(AfterBlock(utext)))

FlatSpecs == Flatten(specLists)

SomePairDiffers(flat) ==
    \E i, j \in 1..Len(flat) :
        i < j /\ flat[i].name = flat[j].name /\ ~SpecFieldsEq(flat[i], flat[j])

\* C3: merge_uda_specs raises exactly when two specs of the input have the
\* same name and differ in type, label, values or urgency, wherever they
\* stand; when it raises it returns no registry.
C3_ConflictIff ==
    mergeAB # NotRun
    => /\ mergeAB.raised <=> SomePairDiffers(FlatSpecs)
       /\ mergeAB.raised => mergeAB.merged = <<>>

\* the differing pair are the second and third spec of a name
C3_Witness ==
    /\ mergeAB # NotRun /\ mergeAB.raised
    /\ Len(FlatSpecs) >= 3
    /\ FlatSpecs[1].name = FlatSpecs[2].name
    /\ FlatSpecs[2].name = FlatSpecs[3].name
    /\ SpecFieldsEq(FlatSpecs[1], FlatSpecs[2])
    /\ ~SpecFieldsEq(FlatSpecs[2], FlatSpecs[3])

\* C4: when sync_taskrc_udas has raised, the target file is what it was
\* before the call.
C4_RaiseLeavesTarget ==
    call.outcome \in ErrorOutcomes => Target = call.before

\* drift raised in strict mode although the upsert would have changed the file
C4_Witness ==
    /\ Completed /\ call.outcome = "DriftError"
    /\ call.updated # call.original
    /\ Target.text = call.original

\* C5: with the target present and the merge successful, sync raises the
\* drift error exactly when strict is set and a name declared by a type
\* line of the file is missing from the registry; without strict it warns
\* and the file ends up as the upsert of the managed block.
C5_DriftIff ==
    call.outcome \in {"ok", "DriftError"}
    => LET drift == parse_existing_uda_names(call.original) \ Keys(call.merged)
       IN /\ call.outcome = "DriftError" <=> (call.strict /\ drift # {})
          /\ (~call.strict /\ drift # {})
             => /\ call.warned
                /\ Completed
                   => /\ Target.text = upsert_uda_block(call.original, call.body)
                      /\ Contains(Target.text, Managed(call.body))

C5_Witness ==
    /\ Completed /\ call.outcome = "ok" /\ ~call.strict
    /\ call.missing # {} /\ call.warned /\ call.wrote

MarkerFree(text) == Count(text, BEGIN_MARKER) = 0 /\ Count(text, END_MARKER) = 0

OneBlock(text) ==
    /\ Count(text, BEGIN_MARKER) = 1
    /\ Count(text, END_MARKER) = 1
    /\ Find(text, BEGIN_MARKER) < Find(text, END_MARKER)

\* C7 as stated: whatever the initial text, after a successful sync the
\* file holds at most one begin marker and at most one end marker.
C7_AtMostOneBlockAnyStart ==
    (Completed /\ call.outcome = "ok")
    => /\ Count(Target.text, BEGIN_MARKER) <= 1
       /\ Count(Target.text, END_MARKER) <= 1

\* C7: when the initial text holds no marker, or exactly one begin marker
\* followed by exactly one end marker, the file never holds more than one
\* marker of a kind, and after every successful sync it holds exactly one
\* begin marker followed by one end marker.
C7_OneBlockFromWellFormed ==
    (file0.exists /\ (MarkerFree(file0.text) \/ OneBlock(file0.text)))
    => /\ Count(Target.text, BEGIN_MARKER) <= 1
       /\ Count(Target.text, END_MARKER) <= 1
       /\ (Completed /\ call.outcome = "ok") => OneBlock(Target.text)

\* the block was created by the first sync and replaced by the second
C7_Witness ==
    /\ file0.exists /\ MarkerFree(file0.text)
    /\ Completed /\ call.outcome = "ok" /\ call.wrote
    /\ prev.outcome = "ok" /\ prev.wrote
    /\ OneBlock(Target.text)

\* C8: from the start of a sync on, the target holds its complete original
\* text until the rename and the complete updated text after it, also when
\* the process dies on the way; only the temporary path is ever incomplete.
C8_TargetNeverPartial ==
    (call.outcome # "none" /\ call.before.exists)
    => /\ Target.exists
       /\ \/ Target.text = call.original
          \/ Target.text = call.updated /\ call.wrote /\ pc = "idle"
       /\ pc \in {"open", "write", "replace", "crashed"}
          => Target.text = call.original

\* half of the new text is on disk, under the temporary path
C8_Witness ==
    /\ pc = "write"
    /\ TmpFile.exists
    /\ TmpFile.text # <<>>
    /\ TmpFile.text # call.updated
    /\ Target.text = call.original
    /\ call.updated # call.original

SameNamedIdentical(flat) == ~SomePairDiffers(flat)

\* C9: merging the lists in the given and in the reversed order raises in
\* both orders or in neither; when all same-named specs are structurally
\* identical neither order raises and the two registries are equal.
C9_MergeCommutes ==
    (mergeAB # NotRun /\ mergeBA # NotRun)
    => /\ mergeAB.raised <=> mergeBA.raised
       /\ SameNamedIdentical(FlatSpecs)
          => /\ ~mergeAB.raised
             /\ ~mergeBA.raised
             /\ RegistryEq(mergeAB.merged, mergeBA.merged)
             /\ RegistryEq(mergeBA.merged, mergeAB.merged)

\* two lists that share a name; the orders keep different representatives
C9_Witness ==
    /\ mergeAB # NotRun /\ mergeBA # NotRun
    /\ Len(specLists) = 2
    /\ ~mergeAB.raised
    /\ \E i \in 1..Len(specLists[1]), j \in 1..Len(specLists[2]) :
           specLists[1][i].name = specLists[2][j].name
    /\ mergeAB.merged # mergeBA.merged

RECURSIVE IsTaskSubtype(_, _)
IsTaskSubtype(cls, c) ==
    \E k \in 1..Len(cls[c].bases) :
        cls[c].bases[k] = TaskId \/ IsTaskSubtype(cls, cls[c].bases[k])

InAllowed(cls, c) == ~allowed.some \/ cls[c].module \in allowed.v

\* C10: discover_task_models returns every transitive subtype of Task
\* whose module is allowed (every one when no module set is given) exactly
\* once, nothing else, and never Task.
C10_ScopedDiscovery ==
    dpc = "done"
    => /\ NoDuplicates(models)
       /\ Range(models) = {c \in 1..Len(graph) :
                              IsTaskSubtype(graph, c) /\ InAllowed(graph, c)}
       /\ TaskId \notin Range(models)

\* a returned type with two subtype parents, one of a module not allowed
C10_Witness ==
    /\ dpc = "done" /\ allowed.some
    /\ \E c \in Range(models) :
           /\ Len(graph[c].bases) = 2
           /\ \A k \in 1..2 : graph[c].bases[k] # TaskId
                              /\ IsTaskSubtype(graph, graph[c].bases[k])
           /\ \E k \in 1..2 : graph[graph[c].bases[k]].module \notin allowed.v

\* the classes a class inherits from, itself and Task included
RECURSIVE AncestorsOf(_, _)
AncestorsOf(cls, c) ==
    IF c = TaskId THEN {TaskId}
    ELSE {c} \cup UNION {AncestorsOf(cls, b) : b \in Range(cls[c].bases)}

DeclaredBy(cls, c) == IF c = TaskId THEN TaskFields ELSE cls[c].own

\* the names of the fields a class declares or inherits
DeclaredNames(cls, c) ==
    UNION {{f.name : f \in Range(DeclaredBy(cls, a))} : a \in AncestorsOf(cls, c)}

SpecNames(specs) == [i \in 1..Len(specs) |-> specs[i].name]

PointsField == xgraph[3].own[1]
PointsSpec == xspecs[IndexOfName(xspecs, "points")]
ExtractedB == xpc = "done" /\ xcls = 3

\* the type of a field that is not nullable
PlainType(tp) == IF tp.origin = "Annotated" THEN tp.args[1] ELSE tp

\* C12: for a field without override metadata, an Enum type gives string
\* with the members' values in declaration order, a Literal type string with
\* the literals in order, datetime gives date, timedelta duration, int and
\* float numeric, and any other type string without values.
C12_Inference ==
    (ExtractedB /\ PointsField.tw = NoTw
                /\ PlainType(PointsField.tp) \in BareTypes)
    => LET T == PlainType(PointsField.tp)
           s == PointsSpec
       IN /\ (T.origin = "" /\ T.kind = "Enum")
                 => /\ s.type = UDA_TYPE_STRING
                    /\ s.values.some
                    /\ Len(s.values.v) = Len(T.members)
                    /\ \A i \in 1..Len(T.members) :
                           s.values.v[i] = PyStr(T.members[i])
          /\ T.origin = "Literal"
                 => /\ s.type = UDA_TYPE_STRING
                    /\ s.values.some
                    /\ Len(s.values.v) = Len(T.members)
                    /\ \A i \in 1..Len(T.members) :
                           s.values.v[i] = PyStr(T.members[i])
          /\ T = Tp("datetime") => s.type = UDA_TYPE_DATE
          /\ T = Tp("timedelta") => s.type = UDA_TYPE_DURATION
          /\ T \in {Tp("int"), Tp("float")} => s.type = UDA_TYPE_NUMERIC
          /\ T \in {Tp("str"), Tp("bool")}
                 => s.type = UDA_TYPE_STRING /\ s.values = NoSeq

\* a bool field without override: the "any other type" case, next to int
C12_Witness ==
    /\ ExtractedB /\ PointsField.tw = NoTw
    /\ PointsField.tp = Tp("bool")
    /\ PointsSpec.type = UDA_TYPE_STRING

\* C13: each of type, label, values and urgency that the override supplies
\* is the value of the extracted spec, whatever that value is, and what the
\* override does not supply is inferred from the annotation.
C13_OverrideVerbatim ==
    ExtractedB
    => LET tw == PointsField.tw
           tp == PointsField.tp
           s == PointsSpec
       IN /\ s.type = IF tw.type.some THEN tw.type.v
                      ELSE _infer_taskwarrior_type(tp)
          /\ s.values = IF tw.values.some THEN tw.values
                        ELSE _infer_values(tp)
          /\ s.label = tw.label
          /\ s.urgency = tw.urgency

\* C20: a field without override metadata whose annotation spells "T or
\* None" gets the type and the values of a field annotated T.
C20_NullableAsPlain ==
    (ExtractedB /\ PointsField.tw = NoTw)
    => \A T \in BareTypes :
           PointsField.tp \in Nullable(T)
           => /\ PointsSpec.type = _infer_taskwarrior_type(T)
              /\ PointsSpec.values = _infer_values(T)

\* the number of times x occurs in q
Occurrences(q, x) == Cardinality({i \in 1..Len(q) : q[i] = x})

SameElements(q1, q2) ==
    \A x \in Range(q1) \cup Range(q2) : Occurrences(q1, x) = Occurrences(q2, x)

AscendingNames(q) ==
    \A i, j \in 1..Len(q) : i < j => Rank(q[i].name) <= Rank(q[j].name)

\* the lines of one spec, "\n" between them: label and values lines as lab
\* and vals say
BlockText(s, lab, vals) ==
    <<TypeLine(s.name, s.type)>>
    \o (IF lab THEN <<NL, LabelLine(s.name, s.label.v)>> ELSE <<>>)
    \o (IF vals THEN <<NL, ValuesLine(s.name, s.values.v)>> ELSE <<>>)
    \o Flatten([i \in 1..Len(s.urgency.v) |->
                   <<NL, UrgencyLine(s.name, s.urgency.v[i])>>])

\* the blocks of q with one blank line between two of them
RECURSIVE LayoutPresent(_)
LayoutPresent(q) ==
    IF q = <<>> THEN <<NL>>
    ELSE BlockText(q[1], q[1].label.some, q[1].values.some)
         \o (IF Len(q) = 1 THEN <<NL>>
             ELSE <<NL, NL>> \o LayoutPresent(Tail(q)))

RECURSIVE LayoutNonEmpty(_)
LayoutNonEmpty(q) ==
    IF q = <<>> THEN <<NL>>
    ELSE BlockText(q[1], q[1].label.some /\ q[1].label.v # "",
                   q[1].values.some /\ q[1].values.v # <<>>)
         \o (IF Len(q) = 1 THEN <<NL>>
             ELSE <<NL, NL>> \o LayoutNonEmpty(Tail(q)))

\* C14 as stated: the specs come in ascending name order, the order of
\* UDARegistry.list(), each as its type line, its label line iff it has a
\* label, its values line iff it has values, one coefficient line per
\* urgency entry, one blank line between two specs.
C14_RenderFormatPresent ==
    rpc = "done"
    => /\ SameElements(rlist, rspecs)
       /\ AscendingNames(rlist)
       /\ rout = LayoutPresent(rlist)

\* C14: the same with the label line iff the label is a non-empty string
\* and the values line iff the list of values is non-empty.
C14_RenderFormatNonEmpty ==
    rpc = "done"
    => /\ SameElements(rlist, rspecs)
       /\ AscendingNames(rlist)
       /\ rout = LayoutNonEmpty(rlist)

\* three specs given in descending name order, one with label, values and
\* two coefficients, one with an empty label and no values
C14_Witness ==
    /\ rpc = "done" /\ Len(rspecs) = 3
    /\ rspecs[1].name = "sprint" /\ rspecs[1].urgency.some
    /\ Len(rspecs[1].urgency.v) = 2 /\ rspecs[1].label.some
    /\ rspecs[2].name = "points" /\ rspecs[2].label = SomeStr("")
    /\ rspecs[3].name = "old"
    /\ rlist[1].name = "old"
    /\ Contains(rout, <<NL, NL>>)

\* C15 as stated: after a successful sync the file holds the begin marker
\* line, the notice line, one blank line, the rendered body and the end
\* marker line directly after the last line of the body.
C15_BlockLayout ==
    (Completed /\ call.outcome = "ok")
    => Contains(Target.text,
                <<BEGIN_MARKER, NL, GENERATED_NOTICE, NL, NL>>
                \o call.body \o <<END_MARKER, NL>>)

\* C17: a sync that finds no file at the target path raises
\* FileNotFoundError and changes neither the types of the process nor any
\* file: the loader has not run and no file is created.
C17_MissingTargetAborts ==
    [][~fs[TASKRC].exists
       => /\ call'.outcome = "FileNotFoundError"
          /\ classes' = classes
          /\ fs' = fs
          /\ pc' = "idle"]_vars

\* the sync of a missing target was given a source directory with types
C17_Witness ==
    /\ Completed /\ call.outcome = "FileNotFoundError"
    /\ tasks_root \in DOMAIN Codebases
    /\ classes = <<>>
    /\ ~Target.exists /\ ~TmpFile.exists

\* C16: for a text without marker the text upsert_uda_block returns starts
\* with the whole text, unchanged, and ends with the managed block.
C16_AppendKeepsText ==
    (upc = "done" /\ MarkerFree(utext))
    => /\ Len(uout) >= Len(utext) + Len(Managed(ubody))
       /\ SubSeq(uout, 1, Len(utext)) = utext
       /\ SubSeq(uout, Len(uout) - Len(Managed(ubody)) + 1, Len(uout))
              = Managed(ubody)

\* a text that ends with spaces and blank lines after a user line
C16_Witness ==
    /\ upc = "done"
    /\ utext = <<SP, UserLine, SP, NL, NL>>
    /\ SubSeq(uout, 1, 5) = utext
    /\ Count(uout, BEGIN_MARKER) = 1

CompleteOps == {"complete", "service_complete"}
AddOps == {"add_dependency", "service_add_dependency"}
RemoveOps == {"remove_dependency", "service_remove_dependency"}

\* C18: complete on a deleted or completed task raises and leaves status,
\* end and modified as they were; on a task of any other status it makes
\* the status completed and end and modified readings of the clock taken
\* during the call.
C18_Complete ==
    top.name \in CompleteOps
    => IF tbefore.status \in {DELETED, COMPLETED}
       THEN /\ top.raised
            /\ task.status = tbefore.status
            /\ task.end = tbefore.end
            /\ task.modified = tbefore.modified
       ELSE /\ ~top.raised
            /\ task.status = COMPLETED
            /\ task.end.some
            /\ top.t0 <= task.end.t /\ task.end.t <= clock
            /\ top.t0 <= task.modified /\ task.modified <= clock

\* Task.complete on a waiting task without end, after the clock moved on
C18_Witness ==
    /\ top.name = "complete" /\ ~top.raised
    /\ tbefore.status = WAITING /\ tbefore.end = NoTime
    /\ tbefore.modified = 0
    /\ task.status = COMPLETED /\ task.end = At(1) /\ task.modified = 1

DependsOk(d) == NoDuplicates(d) /\ SelfUuid \notin Range(d)

\* C19: add_dependency of the task's own uuid raises and changes nothing,
\* add_dependency of a uuid already present changes nothing; on a task that
\* started with a duplicate-free depends without its own uuid, depends never
\* holds a duplicate nor the own uuid, and a uuid removed is absent.
C19_Dependencies ==
    /\ (top.name \in AddOps /\ top.u = SelfUuid)
           => top.raised /\ task = tbefore
    /\ (top.name \in AddOps /\ top.u # SelfUuid
                            /\ top.u \in Range(tbefore.depends))
           => ~top.raised /\ task = tbefore
    /\ (top.name \in AddOps /\ ~top.raised) => top.u \in Range(task.depends)
    /\ DependsOk(task0.depends)
           => /\ DependsOk(task.depends)
              /\ (top.name \in RemoveOps /\ top.u \in Range(tbefore.depends))
                     => top.u \notin Range(task.depends)

\* two dependencies were added and the first one is removed
C19_Witness ==
    /\ task0.depends = <<>>
    /\ top.name = "remove_dependency" /\ top.u = "u1"
    /\ tbefore.depends = <<"u1", "u2">>
    /\ task.depends = <<"u2">>

\* a line that holds the marker and nothing else but spaces around it
MarkerLine(line, marker) == Strip(line) = <<marker>>

HasMarkerLine(text, marker) ==
    \E i \in 1..Len(SplitLines(text)) : MarkerLine(SplitLines(text)[i], marker)

\* a line that holds the marker text next to other text
MentionsMarker(line, marker) ==
    Count(line, marker) > 0 /\ ~MarkerLine(line, marker)

\* C21 as stated: a marker counts as found only when it is a whole line, so
\* a text in which the begin marker or the end marker is no line of its own
\* has no managed block: upsert_uda_block replaces nothing of it and the
\* text it returns starts with the whole text.
C21_WholeLineMarkers ==
    (upc = "done" /\ ~(HasMarkerLine(utext, BEGIN_MARKER)
                       /\ HasMarkerLine(utext, END_MARKER)))
    => /\ Len(uout) >= Len(utext)
       /\ SubSeq(uout, 1, Len(utext)) = utext

\* C22 as stated: when the merge of the spec lists succeeds in the given and
\* in the reversed discovery order, the text rendered from the registry is
\* the same in both orders, the order of the coefficient lines included.
C22_RenderSameInAnyOrder ==
    (mergeAB # NotRun /\ mergeBA # NotRun /\ ~mergeAB.raised /\ ~mergeBA.raised)
    => textAB = textBA

\* C23: a sync with a source directory that follows a sync with the same
\* directory (the files unchanged) in which the merge succeeded does not
\* raise the conflict error and derives an equal registry, although the
\* load has added the types of the files once more.
C23_ReloadHarmless ==
    (call.outcome # "none" /\ prev.outcome \in {"ok", "DriftError"}
     /\ call.root \in DOMAIN Codebases /\ prev.root = call.root)
    => /\ call.outcome # "ConflictError"
       /\ RegistryEq(call.merged, prev.merged)
       /\ RegistryEq(prev.merged, call.merged)

\* the second load of a file with a type and its subtype: four type objects
\* of one module, all discovered
C23_Witness ==
    /\ Completed /\ call.outcome = "ok" /\ prev.outcome = "ok"
    /\ call.root = "shared"
    /\ Cardinality({i \in 1..Len(classes) :
                       classes[i].module = "taskdantic_autoload_1"}) = 4
    /\ Keys(call.merged) = {"sprint", "old"}

\* the names declared by type lines before the begin marker or after the
\* end marker of the block upsert_uda_block finds; by all type lines when
\* it finds no block
OutsideNames(text) ==
    IF HasBlock(text)
    THEN parse_existing_uda_names(BeforeBlock(text))
         \cup parse_existing_uda_names(AfterBlock(text))
    ELSE parse_existing_uda_names(text)

\* the same sync twice: the second follows a non-strict one that warned
AfterDrift ==
    /\ Completed /\ call.outcome = "ok" /\ ~call.strict
    /\ prev.outcome = "ok" /\ prev.missing # {}
    /\ prev.root = call.root

DriftPersists ==
    /\ call.missing = OutsideNames(prev.original) \ Keys(call.merged)
    /\ call.missing \subseteq parse_existing_uda_names(Target.text)

C25_StorageKinds ==
    xpc = "done"
    => \A i \in 1..Len(xspecs) : xspecs[i].type \in TypeUniverse

\* the registry of the declarations a directory holds: its files loaded
\* into a process without types
FreshRegistry(dir) ==
    LET fresh == import_task_modules_from_dir(<<>>, dir)
        found == discover_task_models(fresh.classes, fresh.imported)
    IN merge_uda_specs([i \in 1..Len(found) |->
                           extract_uda_specs(fresh.classes, found[i])])

\* C26 as stated: every sync with the source directory builds the registry
\* of the declarations the files hold at that time, whatever the files held
\* at an earlier sync, and raises no conflict that these declarations do
\* not have among themselves.
C26_OnlyCurrentDeclarations ==
    \A n \in 1..Len(shist) :
        LET now == FreshRegistry(shist[n].dir)
        IN ~now.raised
           => /\ shist[n].call.outcome # "ConflictError"
              /\ RegistryEq(shist[n].call.merged, now.merged)
              /\ RegistryEq(now.merged, shist[n].call.merged)

\* every sync so far read the same state of the source file
CodeUnchanged == \A n \in 1..Len(shist) : shist[n].dir = shist[1].dir

\* the text the first sync read
FirstText == shist[1].call.original

\* C27: when the file at the first sync holds no marker, or exactly one
\* begin marker followed by exactly one end marker, and the code does not
\* change, every sync after the second leaves the file as the second sync
\* left it and writes nothing.
C27_Convergence ==
    (shist # <<>> /\ CodeUnchanged
     /\ (MarkerFree(FirstText) \/ OneBlock(FirstText)))
    => \A n \in 3..Len(shist) :
           /\ shist[n].after = shist[2].after
           /\ ~shist[n].call.write
           /\ shist[n].call.outcome = "ok"

\* the first sync appended the block, the second wrote once more, the third
\* found nothing to write
C27_Witness ==
    /\ Len(shist) = 3 /\ CodeUnchanged
    /\ MarkerFree(FirstText) /\ FirstText # <<>>
    /\ shist[1].call.write /\ shist[2].call.write /\ ~shist[3].call.write
    /\ shist[3].after = shist[2].after
    /\ sfile.text = shist[2].after

\* C28 as stated: the names parse_existing_uda_names finds in the text
\* render_taskrc_udas makes of the specs are the names of the specs,
\* whatever their labels, values and coefficients.
C28_RenderScanRoundTrip ==
    rpc = "done" => rnames = {rspecs[i].name : i \in 1..Len(rspecs)}

\* C29 as stated: no spec extract_uda_specs returns has a name that
\* Task.is_core_field reports as core or computed, and the names of the
\* specs are the keys get_udas() reports for the declared fields of an
\* instance of the type.
C29_ExtractAgreesWithTask ==
    xpc = "done"
    => /\ \A i \in 1..Len(xspecs) : ~is_core_field(xspecs[i].name)
       /\ Range(SpecNames(xspecs)) = xudas

ServiceOps ==
    {"service_complete", "service_start", "service_stop", "service_delete",
     "service_annotate", "service_tag", "service_untag",
     "service_add_dependency", "service_remove_dependency"}

\* C30: an operation of TaskService on a deleted task leaves the status
\* deleted, and complete, start and delete raise ValueError on it and
\* change nothing.
C30_DeletedIsTerminal ==
    (top.name \in ServiceOps /\ tbefore.status = DELETED)
    => /\ task.status = DELETED
       /\ top.name \in {"service_complete", "service_start", "service_delete"}
              => top.raised /\ task = tbefore

\* stop on a deleted task that was started: it succeeds and clears start,
\* the status stays
C30_Witness ==
    /\ top.name = "service_stop" /\ ~top.raised
    /\ tbefore.status = DELETED /\ tbefore.start.some
    /\ task.status = DELETED /\ task.start = NoTime
    /\ task0.status = PENDING

====
